---- MODULE Spec2Model ----
(***************************************************************************)
(* The uwellness-bot webhook relay.  The repository holds three complete   *)
(* servers; `program` says which one is running:                            *)
(*   "server"      src/server.js            (history, content turns)       *)
(*   "serverParts" src/unnamed/part_001, lines 132-266 (history, parts)    *)
(*   "app"         src/unnamed/part_000 and part_001 lines 1-131           *)
(*                 (no history, iterates the whole payload)                *)
(* One handler invocation is cut at its awaits: the generation call and    *)
(* the delivery call.  Node runs each cut atomically, so each cut is one   *)
(* action.  The generation backend and the messaging platform are outside  *)
(* the repository: their answers are nondeterministic.                     *)
(***************************************************************************)
EXTENDS Integers, Sequences, FiniteSets, TLC

\* ---------------------------------------------------------------- bounds
MaxReq == 2

\* ---------------------------------------------------------------- values
Programs == {"server", "serverParts", "app"}
HistoryPrograms == {"server", "serverParts"}

\* JavaScript's undefined
Absent == "<undefined>"

EnvNames == {"WHATSAPP_TOKEN", "GEMINI_API_KEY", "PHONE_NUMBER_ID", "VERIFY_TOKEN"}
\* the value the deployment gives VERIFY_TOKEN when it sets it
Secret == "s3cret"

Senders == {"A", "B"}
Texts == {"t1", "t2"}
Replies == {"r1", "r2"}
WABA == "whatsapp_business_account"

Reqs == 1..MaxReq

\* !x for the values a query parameter or a text body can take
Falsy(x) == x = Absent \/ x = ""

\* ---------------------------------------------------------------- payloads
\* { from, type, text: { body } }; hasText = FALSE when the text object is missing
Msg(f, ty, ht, b) == [from |-> f, type |-> ty, hasText |-> ht, body |-> b]
Change(fld, hv, hm, ms) == [field |-> fld, hasValue |-> hv, hasMessages |-> hm, messages |-> ms]
Entry(hc, cs) == [hasChanges |-> hc, changes |-> cs]
Body(obj, he, es) == [object |-> obj, hasEntry |-> he, entry |-> es]

MsgChange(ms) == Change("messages", TRUE, TRUE, ms)
OneMsg(m) == Body(WABA, TRUE, << Entry(TRUE, << MsgChange(<<m>>) >>) >>)

TextMsg(f, t) == Msg(f, "text", TRUE, t)

NoTextObject == Msg("A", "text", FALSE, Absent)

\* single-message payloads
SingleMsgs ==
    {TextMsg(f, t) : f \in Senders, t \in Texts}
    \cup {Msg("A", "text", TRUE, Absent),      \* text object without body
          NoTextObject,                        \* text message without text object
          Msg("A", "image", FALSE, Absent),    \* non-text message
          Msg("A", "button", TRUE, "t1"),      \* non-text type carrying a text body
          TextMsg(Absent, "t1")}               \* no from field

\* two messages in one payload, in one messages[], in two changes[], in two entry[]
TwoInMessages(m1, m2) == Body(WABA, TRUE, << Entry(TRUE, << MsgChange(<<m1, m2>>) >>) >>)
TwoInChanges(m1, m2) == Body(WABA, TRUE, << Entry(TRUE, << MsgChange(<<m1>>), MsgChange(<<m2>>) >>) >>)
TwoInEntries(m1, m2) ==
    Body(WABA, TRUE, << Entry(TRUE, << MsgChange(<<m1>>) >>), Entry(TRUE, << MsgChange(<<m2>>) >>) >>)
MultiBodies ==
    {TwoInMessages(TextMsg("A", "t1"), TextMsg("A", "t2")),
     TwoInMessages(TextMsg("A", "t1"), TextMsg("B", "t1")),
     TwoInMessages(TextMsg("A", "t1"), NoTextObject),
     TwoInMessages(NoTextObject, TextMsg("A", "t2")),
     TwoInChanges(TextMsg("A", "t1"), TextMsg("A", "t2")),
     TwoInEntries(TextMsg("A", "t1"), TextMsg("A", "t2"))}

\* payloads of unexpected shape
OddBodies ==
    {Body(WABA, FALSE, <<>>),                                      \* no entry
     Body(WABA, TRUE, <<>>),                                       \* entry: []
     Body(WABA, TRUE, << Entry(FALSE, <<>>) >>),                   \* entry without changes
     Body(WABA, TRUE, << Entry(TRUE, <<>>) >>),                    \* changes: []
     Body(WABA, TRUE, << Entry(TRUE, << Change("messages", FALSE, FALSE, <<>>) >>) >>),  \* no value
     Body(WABA, TRUE, << Entry(TRUE, << Change("messages", TRUE, FALSE, <<>>) >>) >>),   \* no messages
     Body(WABA, TRUE, << Entry(TRUE, << Change("statuses", TRUE, TRUE, <<TextMsg("A", "t1")>>) >>) >>),
     Body("page", TRUE, << Entry(TRUE, << MsgChange(<<TextMsg("A", "t1")>>) >>) >>)}

Bodies == {OneMsg(m) : m \in SingleMsgs} \cup MultiBodies \cup OddBodies
NoBody == Body(Absent, FALSE, <<>>)

\* query strings of GET /webhook
Query(m, t, c) == [mode |-> m, token |-> t, challenge |-> c]
Modes == {Absent, "subscribe", "unsubscribe"}
Tokens == {Absent, Secret, "wrong"}
Challenges == {"c1"}
Queries == {Query(m, t, c) : m \in Modes, t \in Tokens, c \in Challenges}
NoQuery == Query(Absent, Absent, Absent)


\* ---------------------------------------------------------------- parsing
\* req.body.entry?.[0]?.changes?.[0]?.value?.messages?.[0]
\* <<>> is undefined, <<m>> the message object.  object and field are not read.
MessageObj(b) ==
    IF ~b.hasEntry \/ Len(b.entry) = 0 THEN <<>>
    ELSE LET e == b.entry[1] IN
         IF ~e.hasChanges \/ Len(e.changes) = 0 THEN <<>>
         ELSE LET c == e.changes[1] IN
              IF ~c.hasValue \/ ~c.hasMessages \/ Len(c.messages) = 0 THEN <<>>
              ELSE << c.messages[1] >>

\* a variant that turns the body into a string: String(undefined) is "undefined"
TextBodyAsString(m) == IF m.hasText /\ m.body # Absent THEN m.body ELSE "undefined"

\* messageObj.text?.body
TextBody(m) == IF m.hasText THEN m.body ELSE Absent

\* the early return of the history servers: server.js tests only !messageObj,
\* the parts server also tests messageObj.type !== "text"
NotAMessage(prog, mo) ==
    \/ mo = <<>>
    \/ prog = "serverParts" /\ mo[1].type # "text"

\* The iteration of app.js over entry[].changes[].value.messages[], in visiting
\* order: a "text" item for each text message it reaches, ending with a "throw"
\* item where the code dereferences undefined (a TypeError outside any try).
TextItem(m) == [kind |-> "text", from |-> m.from, text |-> m.body]
ThrowItem == [kind |-> "throw", from |-> Absent, text |-> Absent]
Throws(plan) == plan # <<>> /\ plan[Len(plan)].kind = "throw"

\* message.type === 'text'; message.text.body
MessagePlan(m) ==
    IF m.type # "text" THEN <<>>
    ELSE IF ~m.hasText THEN <<ThrowItem>>
    ELSE <<TextItem(m)>>

RECURSIVE MessagesPlan(_)
MessagesPlan(ms) ==
    IF ms = <<>> THEN <<>>
    ELSE LET p == MessagePlan(Head(ms)) IN
         IF Throws(p) THEN p ELSE p \o MessagesPlan(Tail(ms))

\* change.field === 'messages'; change.value.messages; messages && messages.length > 0
ChangePlan(c) ==
    IF c.field # "messages" THEN <<>>
    ELSE IF ~c.hasValue THEN <<ThrowItem>>
    ELSE IF ~c.hasMessages \/ Len(c.messages) = 0 THEN <<>>
    ELSE MessagesPlan(c.messages)

RECURSIVE ChangesPlan(_)
ChangesPlan(cs) ==
    IF cs = <<>> THEN <<>>
    ELSE LET p == ChangePlan(Head(cs)) IN
         IF Throws(p) THEN p ELSE p \o ChangesPlan(Tail(cs))

\* for (const change of entry.changes)
EntryPlan(e) == IF ~e.hasChanges THEN <<ThrowItem>> ELSE ChangesPlan(e.changes)

RECURSIVE EntriesPlan(_)
EntriesPlan(es) ==
    IF es = <<>> THEN <<>>
    ELSE LET p == EntryPlan(Head(es)) IN
         IF Throws(p) THEN p ELSE p \o EntriesPlan(Tail(es))

\* body.object === 'whatsapp_business_account'; for (const entry of body.entry)
AppPlan(b) ==
    IF b.object # WABA THEN <<>>
    ELSE IF ~b.hasEntry THEN <<ThrowItem>>
    ELSE EntriesPlan(b.entry)

\* ---------------------------------------------------------------- turns
\* the role name of the generation SDK in place of the one the servers store
TurnWithModelRole(prog, role, text) ==
    LET stored == IF role = "assistant" THEN "model" ELSE role
    IN IF prog = "serverParts"
       THEN [role |-> stored, parts |-> << [text |-> text] >>]
       ELSE [role |-> stored, content |-> text]

\* server.js stores { role, content }, the parts server { role, parts: [{ text }] }
Turn(prog, role, text) ==
    IF prog = "serverParts"
    THEN [role |-> role, parts |-> << [text |-> text] >>]
    ELSE [role |-> role, content |-> text]

TurnText(prog, t) == IF prog = "serverParts" THEN t.parts[1].text ELSE t.content

\* the fixed text sent when the generation call fails
Fallback(prog) ==
    CASE prog = "server" -> "Oops! Something went wrong. Please try again later."
      [] prog = "serverParts" ->
            "Oops! Something went wrong on my end. Please try again later or contact support."
      [] OTHER -> "Sorry, I couldn't process that. An internal error occurred."

\* ---------------------------------------------------------------- responses
Resp(st, b) == [status |-> st, body |-> b]
\* res.sendStatus(code) sends the status text as body
StatusText(st) ==
    CASE st = 200 -> "OK" [] st = 400 -> "Bad Request" [] st = 403 -> "Forbidden"
      [] OTHER -> "Internal Server Error"
SendStatus(st) == Resp(st, StatusText(st))
\* res.status(200).send(x): undefined is sent as an empty body
Send(st, x) == Resp(st, IF x = Absent THEN "" ELSE x)

\* process.env.VERIFY_TOKEN
VerifyToken(environment) == IF "VERIFY_TOKEN" \in environment THEN Secret ELSE Absent

\* app.get('/webhook'): the history servers know only 200 and 403, app.js answers
\* 400 when mode or token is falsy
GetResponse(prog, environment, q) ==
    IF prog \in HistoryPrograms
    THEN IF q.mode = "subscribe" /\ q.token = VerifyToken(environment)
         THEN Send(200, q.challenge)
         ELSE SendStatus(403)
    ELSE IF ~Falsy(q.mode) /\ ~Falsy(q.token)
         THEN IF q.mode = "subscribe" /\ q.token = VerifyToken(environment)
              THEN Send(200, q.challenge)
              ELSE SendStatus(403)
         ELSE SendStatus(400)

\* the startup check of app.js: process.exit(1) when a variable is missing.
\* server.js and the parts server read the variables without checking them.
ExitsAtStartup(prog, environment) == prog = "app" /\ environment # EnvNames


\* ---------------------------------------------------------------- state
VARIABLES
    program,        \* which of the repository's servers runs
    env,            \* the names of the environment variables that are set
    proc,           \* "loading", "listening", "exited" (process.exit) or "crashed"
    nreq,           \* requests received so far; request ids are arrival order
    req,            \* req[r]: method, body, query of request r
    pc,             \* pc[r]: where the handler of request r stands
    userPhone,      \* userPhone[r]: the handler's userPhone / userPhoneNumber
    cursor,         \* cursor[r]: position of app.js in its iteration
    chatHistories,  \* the session store: sender key -> sequence of turns
    genCalls,       \* genCalls[r]: generation calls made, with the history passed
    genResults,     \* genResults[r]: what each call returned ("fail" or the reply)
    deliveries,     \* deliveries[r]: delivery calls made (to, text)
    delivResults,   \* delivResults[r]: how each delivery call ended
    resp,           \* resp[r]: HTTP responses sent to request r
    inFlightAtStart \* inFlightAtStart[r]: requests suspended when r arrived

vars == <<program, env, proc, nreq, req, pc, userPhone, cursor, chatHistories,
          genCalls, genResults, deliveries, delivResults, resp, inFlightAtStart>>

Suspended == {"gen", "send", "sendErr"}
InFlight == {r \in Reqs : pc[r] \in Suspended}

\* the state when the module starts to load, given the environment
InitWith(environments) ==
    /\ program \in Programs
    /\ env \in environments
    /\ proc = "loading"
    /\ nreq = 0
    /\ req = [r \in Reqs |-> [method |-> "none", body |-> NoBody, query |-> NoQuery]]
    /\ pc = [r \in Reqs |-> "new"]
    /\ userPhone = [r \in Reqs |-> Absent]
    /\ cursor = [r \in Reqs |-> 0]
    /\ chatHistories = <<>>
    /\ genCalls = [r \in Reqs |-> <<>>]
    /\ genResults = [r \in Reqs |-> <<>>]
    /\ deliveries = [r \in Reqs |-> <<>>]
    /\ delivResults = [r \in Reqs |-> <<>>]
    /\ resp = [r \in Reqs |-> <<>>]
    /\ inFlightAtStart = [r \in Reqs |-> {}]

\* a deployment that sets every variable
Init == InitWith({EnvNames})
\* a deployment that sets every variable, or all but one
InitAnyEnv == InitWith({EnvNames} \cup {EnvNames \ {n} : n \in EnvNames})

\* ---------------------------------------------------------------- session store
\* a variant keeping one history for all senders
HistoryKeyShared(phone) == "A"

\* chatHistories[userPhone]: the key a sender's history is kept under
HistoryKey(phone) == phone

\* if (!chatHistories[userPhone]) chatHistories[userPhone] = []
InitHistory(h, key) ==
    IF key \in DOMAIN h THEN h
    ELSE [k \in DOMAIN h \cup {key} |-> IF k \in DOMAIN h THEN h[k] ELSE <<>>]

\* a variant that puts the turn at the front (unshift)
PushTurnFront(h, key, turn) == [h EXCEPT ![key] = <<turn>> \o @]

\* a variant that drops a turn the history already holds (deduplication)
PushTurnDedup(h, key, turn) ==
    IF \E i \in 1..Len(h[key]) : h[key][i] = turn THEN h ELSE [h EXCEPT ![key] = Append(@, turn)]

\* chatHistories[userPhone].push(turn)
PushTurn(h, key, turn) == [h EXCEPT ![key] = Append(@, turn)]

\* a variant whose catch block rethrows
DeliveryRethrows(outcome) == outcome = "fail"

\* sendTextMessage / sendMessageToWhatsApp catch every failure of axios.post:
\* the call never throws into the handler
DeliveryThrows(outcome) == FALSE

\* ---------------------------------------------------------------- startup
\* module load up to app.listen
Startup ==
    /\ proc = "loading"
    /\ proc' = IF ExitsAtStartup(program, env) THEN "exited" ELSE "listening"
    /\ UNCHANGED <<program, env, nreq, req, pc, userPhone, cursor, chatHistories,
                   genCalls, genResults, deliveries, delivResults, resp, inFlightAtStart>>

\* the history handed to startChat: the sender's stored array itself, user turn
\* of the current message included
ChatSeedPrior(h, key) == SubSeq(h[key], 1, Len(h[key]) - 1)

ChatSeed(h, key) == h[key]

\* the call sendTextMessage(userPhone, geminiReply)
ReplyDeliverySwapped(phone, reply) == [to |-> reply, text |-> phone]

ReplyDelivery(phone, reply) == [to |-> phone, text |-> reply]

\* the catch block leaves chatHistories as the try block left it
FailureRecordsFallback(prog, h, key) == PushTurn(h, key, Turn(prog, "assistant", Fallback(prog)))

HistoryAfterFailure(prog, h, key) == h

\* every outbound call is awaited: a suspended handler holds nothing that
\* another request needs, so no request waits for another
BlocksWhileSuspended(r) == \E o \in Reqs \ {r} : pc[o] \in Suspended

Blocks(r) == FALSE

\* request r arrives: r is the next id
Arrive(r, method, b, q) ==
    /\ proc = "listening"
    /\ ~Blocks(r)
    /\ r = nreq + 1
    /\ r \in Reqs
    /\ nreq' = r
    /\ req' = [req EXCEPT ![r] = [method |-> method, body |-> b, query |-> q]]
    /\ inFlightAtStart' = [inFlightAtStart EXCEPT ![r] = InFlight]

\* ---------------------------------------------------------------- GET /webhook
Get(r, q) ==
    /\ Arrive(r, "GET", NoBody, q)
    /\ resp' = [resp EXCEPT ![r] = Append(@, GetResponse(program, env, q))]
    /\ pc' = [pc EXCEPT ![r] = "done"]
    /\ UNCHANGED <<program, env, proc, userPhone, cursor, chatHistories,
                   genCalls, genResults, deliveries, delivResults>>

\* ---------------------------------------------------------------- POST /webhook, history servers
\* from the start of the handler to the await of chat.sendMessage, or to an early return
SrvPostStart(r, b) ==
    /\ program \in HistoryPrograms
    /\ Arrive(r, "POST", b, NoQuery)
    /\ LET mo == MessageObj(b) IN
       IF NotAMessage(program, mo)
       THEN /\ resp' = [resp EXCEPT ![r] = Append(@, SendStatus(200))]
            /\ pc' = [pc EXCEPT ![r] = "done"]
            /\ UNCHANGED <<userPhone, chatHistories, genCalls>>
       ELSE LET phone == mo[1].from
                userMessage == TextBody(mo[1])
                key == HistoryKey(phone)
                h == PushTurn(InitHistory(chatHistories, key), key,
                              Turn(program, "user", userMessage))
            IN /\ userPhone' = [userPhone EXCEPT ![r] = phone]
               /\ IF Falsy(userMessage)
                  THEN /\ resp' = [resp EXCEPT ![r] = Append(@, SendStatus(200))]
                       /\ pc' = [pc EXCEPT ![r] = "done"]
                       /\ UNCHANGED <<chatHistories, genCalls>>
                  ELSE /\ chatHistories' = h
                       /\ genCalls' = [genCalls EXCEPT ![r] =
                              Append(@, [history |-> ChatSeed(h, key), message |-> userMessage])]
                       /\ pc' = [pc EXCEPT ![r] = "gen"]
                       /\ UNCHANGED resp
    /\ UNCHANGED <<program, env, proc, cursor, genResults, deliveries, delivResults>>

\* chat.sendMessage resolved and response.text() returned: record the assistant
\* turn and call sendTextMessage
SrvGenOk(r, reply) ==
    /\ proc = "listening"
    /\ ~Blocks(r)
    /\ program \in HistoryPrograms
    /\ pc[r] = "gen"
    /\ genResults' = [genResults EXCEPT ![r] = Append(@, reply)]
    /\ chatHistories' = PushTurn(chatHistories, HistoryKey(userPhone[r]),
                                 Turn(program, "assistant", reply))
    /\ deliveries' = [deliveries EXCEPT ![r] = Append(@, ReplyDelivery(userPhone[r], reply))]
    /\ pc' = [pc EXCEPT ![r] = "send"]
    /\ UNCHANGED <<program, env, proc, nreq, req, userPhone, cursor, genCalls,
                   delivResults, resp, inFlightAtStart>>

\* the generation call threw: the catch block sends the fallback text when
\* userPhone is set, and answers 500
SrvGenFail(r) ==
    /\ proc = "listening"
    /\ ~Blocks(r)
    /\ program \in HistoryPrograms
    /\ pc[r] = "gen"
    /\ genResults' = [genResults EXCEPT ![r] = Append(@, "fail")]
    /\ chatHistories' = HistoryAfterFailure(program, chatHistories, HistoryKey(userPhone[r]))
    /\ IF ~Falsy(userPhone[r])
       THEN /\ deliveries' = [deliveries EXCEPT ![r] =
                   Append(@, [to |-> userPhone[r], text |-> Fallback(program)])]
            /\ pc' = [pc EXCEPT ![r] = "sendErr"]
            /\ UNCHANGED resp
       ELSE /\ resp' = [resp EXCEPT ![r] = Append(@, SendStatus(500))]
            /\ pc' = [pc EXCEPT ![r] = "done"]
            /\ UNCHANGED deliveries
    /\ UNCHANGED <<program, env, proc, nreq, req, userPhone, cursor,
                   genCalls, delivResults, inFlightAtStart>>

\* sendTextMessage returned.  In the try block the handler answers 200; were the
\* call to throw there, the catch block would send the fallback and answer 500.
\* In the catch block the handler answers 500.
SrvSendReturn(r, outcome) ==
    /\ proc = "listening"
    /\ ~Blocks(r)
    /\ program \in HistoryPrograms
    /\ pc[r] \in {"send", "sendErr"}
    /\ delivResults' = [delivResults EXCEPT ![r] = Append(@, outcome)]
    /\ IF pc[r] = "send" /\ DeliveryThrows(outcome)
       THEN /\ deliveries' = [deliveries EXCEPT ![r] =
                   Append(@, [to |-> userPhone[r], text |-> Fallback(program)])]
            /\ pc' = [pc EXCEPT ![r] = "sendErr"]
            /\ UNCHANGED resp
       ELSE /\ resp' = [resp EXCEPT ![r] =
                   Append(@, SendStatus(IF pc[r] = "send" THEN 200 ELSE 500))]
            /\ pc' = [pc EXCEPT ![r] = "done"]
            /\ UNCHANGED deliveries
    /\ UNCHANGED <<program, env, proc, nreq, req, userPhone, cursor, chatHistories,
                   genCalls, genResults, inFlightAtStart>>


\* ---------------------------------------------------------------- POST /webhook, app.js
\* app.js continues its iteration at item i of request r's plan: the next text
\* message is handed to generateContent, a TypeError leaves the handler, and
\* after the last item the handler answers 200 EVENT_RECEIVED
AppContinue(r, plan, i) ==
    /\ cursor' = [cursor EXCEPT ![r] = i]
    /\ IF i > Len(plan)
       THEN /\ resp' = [resp EXCEPT ![r] = Append(@, Send(200, "EVENT_RECEIVED"))]
            /\ pc' = [pc EXCEPT ![r] = "done"]
            /\ UNCHANGED <<userPhone, genCalls>>
       ELSE IF plan[i].kind = "throw"
       THEN /\ pc' = [pc EXCEPT ![r] = "threw"]
            /\ UNCHANGED <<userPhone, genCalls, resp>>
       ELSE /\ userPhone' = [userPhone EXCEPT ![r] = plan[i].from]
            /\ genCalls' = [genCalls EXCEPT ![r] =
                   Append(@, [history |-> <<>>, message |-> plan[i].text])]
            /\ pc' = [pc EXCEPT ![r] = "gen"]
            /\ UNCHANGED resp

AppPostStart(r, b) ==
    /\ program = "app"
    /\ Arrive(r, "POST", b, NoQuery)
    /\ AppContinue(r, AppPlan(b), 1)
    /\ UNCHANGED <<program, env, proc, chatHistories, genResults, deliveries, delivResults>>

\* generateContent returned or threw: the reply, or in the catch block the
\* fallback text, goes to sendMessageToWhatsApp
AppGenReturn(r, result) ==
    /\ proc = "listening"
    /\ ~Blocks(r)
    /\ program = "app"
    /\ pc[r] = "gen"
    /\ genResults' = [genResults EXCEPT ![r] = Append(@, result)]
    /\ deliveries' = [deliveries EXCEPT ![r] =
           Append(@, [to |-> userPhone[r],
                      text |-> IF result = "fail" THEN Fallback(program) ELSE result])]
    /\ pc' = [pc EXCEPT ![r] = "send"]
    /\ UNCHANGED <<program, env, proc, nreq, req, userPhone, cursor, chatHistories,
                   genCalls, delivResults, resp, inFlightAtStart>>

\* sendMessageToWhatsApp returned: on to the next message of the payload
AppSendReturn(r, outcome) ==
    /\ proc = "listening"
    /\ ~Blocks(r)
    /\ program = "app"
    /\ pc[r] = "send"
    /\ delivResults' = [delivResults EXCEPT ![r] = Append(@, outcome)]
    /\ AppContinue(r, AppPlan(req[r].body), cursor[r] + 1)
    /\ UNCHANGED <<program, env, proc, nreq, req, chatHistories, genResults,
                   deliveries, inFlightAtStart>>

\* A TypeError left the async handler of app.js, which has no try around its
\* loops.  What follows is the runtime's: Express 4 leaves the request without a
\* response and Node either goes on (hung) or ends the process on the unhandled
\* rejection (crashed); Express 5 answers 500 from its error handler.
Unhandled(r) ==
    /\ proc = "listening"
    /\ ~Blocks(r)
    /\ pc[r] = "threw"
    /\ \/ /\ pc' = [pc EXCEPT ![r] = "hung"]
          /\ UNCHANGED <<proc, resp>>
       \/ /\ pc' = [pc EXCEPT ![r] = "hung"]
          /\ proc' = "crashed"
          /\ UNCHANGED resp
       \/ /\ pc' = [pc EXCEPT ![r] = "done"]
          /\ resp' = [resp EXCEPT ![r] = Append(@, SendStatus(500))]
          /\ UNCHANGED proc
    /\ UNCHANGED <<program, env, nreq, req, userPhone, cursor, chatHistories,
                   genCalls, genResults, deliveries, delivResults, inFlightAtStart>>

\* ---------------------------------------------------------------- specification
Results == Replies \cup {"fail"}
Outcomes == {"ok", "fail"}

Next ==
    \/ Startup
    \/ \E r \in Reqs, q \in Queries : Get(r, q)
    \/ \E r \in Reqs, b \in Bodies : SrvPostStart(r, b)
    \/ \E r \in Reqs, reply \in Replies : SrvGenOk(r, reply)
    \/ \E r \in Reqs : SrvGenFail(r)
    \/ \E r \in Reqs, o \in Outcomes : SrvSendReturn(r, o)
    \/ \E r \in Reqs, b \in Bodies : AppPostStart(r, b)
    \/ \E r \in Reqs, res \in Results : AppGenReturn(r, res)
    \/ \E r \in Reqs, o \in Outcomes : AppSendReturn(r, o)
    \/ \E r \in Reqs : Unhandled(r)

Spec == Init /\ [][Next]_vars
SpecAnyEnv == InitAnyEnv /\ [][Next]_vars


\* ---------------------------------------------------------------- what a request asked for
Keys == Senders \cup {Absent}
History(s) == IF s \in DOMAIN chatHistories THEN chatHistories[s] ELSE <<>>

IsPost(r) == req[r].method = "POST"
IsGet(r) == req[r].method = "GET"
\* the first message of the payload, the one the history servers look at
FirstMsg(r) == MessageObj(req[r].body)
HasFirstMsg(r) == IsPost(r) /\ FirstMsg(r) # <<>>
SentFrom(r) == FirstMsg(r)[1].from
SentType(r) == FirstMsg(r)[1].type
SentText(r) == TextBody(FirstMsg(r)[1])
\* request r carries a message with a text body from sender s
CarriesTextFrom(r, s) == HasFirstMsg(r) /\ SentFrom(r) = s /\ ~Falsy(SentText(r))
\* ... and that message is a text message
TextMessageFrom(r, s) == CarriesTextFrom(r, s) /\ SentType(r) = "text"

Status(r) == resp[r][1].status
Answered(r, st) == pc[r] = "done" /\ Len(resp[r]) = 1 /\ Status(r) = st
GenOk(r) == genResults[r] # <<>> /\ genResults[r][1] # "fail"
GenFailed(r) == genResults[r] # <<>> /\ genResults[r][1] = "fail"

\* ---------------------------------------------------------------- C1
\* the requests of sender s that carry a text body, and the history their
\* exchanges should leave: user turn, assistant turn, in arrival order
Exchanges(s) == {r \in Reqs : CarriesTextFrom(r, s)}
RECURSIVE ExpectedHistory(_, _)
ExpectedHistory(s, n) ==
    IF n = 0 THEN <<>>
    ELSE ExpectedHistory(s, n - 1) \o
         (IF n \in Exchanges(s)
          THEN << Turn(program, "user", SentText(n)),
                  Turn(program, "assistant", genResults[n][1]) >>
          ELSE <<>>)

\* every request of s is a text message, none arrived while another of s was
\* suspended, every generation call succeeded and every request was answered
SequentialAllOk(s) ==
    \A r \in Exchanges(s) :
        /\ SentType(r) = "text"
        /\ inFlightAtStart[r] \cap Exchanges(s) = {}
        /\ pc[r] = "done"
        /\ GenOk(r)

\* C1: for a sender whose text messages are processed strictly one after the
\* other and whose generation calls all succeed, the stored history after N
\* exchanges is exactly the 2N turns user, assistant, user, assistant, ..., the
\* k-th user turn holding the k-th sent text and the k-th assistant turn the
\* reply generated for it.
C1_SequentialHistory ==
    program \in HistoryPrograms =>
        \A s \in Keys :
            SequentialAllOk(s) =>
                /\ History(s) = ExpectedHistory(s, MaxReq)
                /\ Len(History(s)) = 2 * Cardinality(Exchanges(s))

\* two exchanges of sender A, one after the other, with different texts
C1_Witness ==
    /\ program \in HistoryPrograms
    /\ Cardinality(Exchanges("A")) = 2
    /\ SequentialAllOk("A")
    /\ SentText(1) # SentText(2)
    /\ Len(History("A")) = 4

\* ---------------------------------------------------------------- C2
\* C2: under any interleaving, a step changes the history stored under a sender
\* only if it is a step of a POST request from that sender, and then by appending
\* one turn; a request never adds, removes or changes a turn of another sender.
C2_Isolation ==
    [][\A s \in Keys :
          History(s)' # History(s) =>
              /\ \E r \in Reqs : pc'[r] # pc[r] /\ CarriesTextFrom(r, s)'
              /\ Len(History(s)') = Len(History(s)) + 1
              /\ SubSeq(History(s)', 1, Len(History(s))) = History(s)]_vars

\* a request of B arrived while a request of A was suspended, and both have
\* recorded turns
C2_Witness ==
    /\ program \in HistoryPrograms
    /\ CarriesTextFrom(1, "A") /\ CarriesTextFrom(2, "B")
    /\ 1 \in inFlightAtStart[2]
    /\ Len(History("A")) = 2 /\ Len(History("B")) = 2


\* ---------------------------------------------------------------- C3
\* the payload parses to the end: app.js meets no TypeError in it
ParsesFully(r) == program = "app" => ~Throws(AppPlan(req[r].body))
DeliveredTo(r, to, text) ==
    \E i \in 1..Len(deliveries[r]) : deliveries[r][i] = [to |-> to, text |-> text]

\* C3: a successfully parsed text message is answered 200 whatever happens
\* downstream, and when its generation call fails the fallback text is still
\* handed to the delivery client for its sender.
C3_ParsedAnswered200 ==
    \A r \in Reqs :
        (IsPost(r) /\ genCalls[r] # <<>> /\ userPhone[r] # Absent /\ ParsesFully(r)
           /\ pc[r] = "done") =>
            /\ Answered(r, 200)
            /\ GenFailed(r) => DeliveredTo(r, userPhone[r], Fallback(program))

\* ---------------------------------------------------------------- C4
SingleBodies == {OneMsg(m) : m \in SingleMsgs}
\* the payload carries one message, of a type other than "text" or without text body
NonTextEvent(r) ==
    /\ IsPost(r) /\ req[r].body \in SingleBodies
    /\ SentType(r) # "text" \/ SentText(r) = Absent

\* C4: the arrival of a non-text event (type other than "text", or no text body)
\* changes no history, makes no generation call and no delivery call, and is
\* answered 200.
C4_NonTextIgnored ==
    [][\A r \in Reqs :
          (pc[r] = "new" /\ pc'[r] # "new" /\ NonTextEvent(r)') =>
              /\ chatHistories' = chatHistories
              /\ genCalls' = genCalls
              /\ deliveries' = deliveries
              /\ Answered(r, 200)']_vars

\* ---------------------------------------------------------------- C5
\* C5: GET /webhook answers 200 with the challenge exactly when mode is
\* "subscribe" and the token is the configured secret; otherwise 400 when mode or
\* token is absent and 403 else, without the challenge in the body.
C5_Handshake ==
    \A r \in Reqs :
        (IsGet(r) /\ pc[r] = "done") =>
            LET q == req[r].query
                accept == /\ q.mode = "subscribe"
                          /\ q.token # Absent
                          /\ q.token = VerifyToken(env)
            IN IF accept
               THEN resp[r] = << Send(200, q.challenge) >>
               ELSE /\ Len(resp[r]) = 1
                    /\ Status(r) = IF q.mode = Absent \/ q.token = Absent THEN 400 ELSE 403
                    /\ q.challenge # Absent => resp[r][1].body # q.challenge

\* ---------------------------------------------------------------- C6
\* every message of the payload, over entry[], changes[] with field "messages",
\* and messages[]
RECURSIVE ChangesMessages(_)
ChangesMessages(cs) ==
    IF cs = <<>> THEN <<>>
    ELSE (IF Head(cs).field = "messages" /\ Head(cs).hasValue /\ Head(cs).hasMessages
          THEN Head(cs).messages ELSE <<>>) \o ChangesMessages(Tail(cs))
RECURSIVE EntriesMessages(_)
EntriesMessages(es) ==
    IF es = <<>> THEN <<>>
    ELSE (IF Head(es).hasChanges THEN ChangesMessages(Head(es).changes) ELSE <<>>)
         \o EntriesMessages(Tail(es))
IsTextMessage(m) == m.type = "text" /\ m.hasText /\ ~Falsy(m.body)
PayloadTexts(b) ==
    IF b.hasEntry THEN SelectSeq(EntriesMessages(b.entry), IsTextMessage) ELSE <<>>

\* C6: once a webhook payload has been handled, every text message in it has had
\* its own generation call and its own delivery call, whatever happened to the
\* other messages of the payload.
C6_EveryMessageProcessed ==
    \A r \in Reqs :
        (IsPost(r) /\ req[r].body.object = WABA /\ pc[r] \in {"done", "hung"}) =>
            /\ Len(genCalls[r]) = Len(PayloadTexts(req[r].body))
            /\ Len(deliveries[r]) = Len(PayloadTexts(req[r].body))
            /\ \A i \in 1..Len(genCalls[r]) :
                   genCalls[r][i].message = PayloadTexts(req[r].body)[i].body


\* ---------------------------------------------------------------- C7
\* an entry or changes or value field is missing, or a text message has no text object
MalformedMessage(m) == m.type = "text" /\ ~m.hasText
MalformedChange(c) ==
    \/ ~c.hasValue
    \/ \E k \in 1..Len(c.messages) : MalformedMessage(c.messages[k])
MalformedEntry(e) ==
    \/ ~e.hasChanges
    \/ \E j \in 1..Len(e.changes) : MalformedChange(e.changes[j])
Malformed(b) ==
    \/ ~b.hasEntry
    \/ \E i \in 1..Len(b.entry) : MalformedEntry(b.entry[i])

NothingToRead(r) ==
    /\ IsPost(r) /\ Malformed(req[r].body)
    /\ FirstMsg(r) = <<>> \/ ~FirstMsg(r)[1].hasText

\* the text messages app.js reaches before the TypeError
ReachedBeforeThrow(r) == Len(AppPlan(req[r].body)) - 1

UserTurns(s, t) ==
    Len(SelectSeq(History(s), LAMBDA turn : turn = Turn(program, "user", t)))
\* the requests so far whose message the history server records under s with text t
Recorded(s, t) ==
    {r \in Reqs : /\ pc[r] # "new"
                  /\ CarriesTextFrom(r, s) /\ SentText(r) = t
                  /\ program = "serverParts" => SentType(r) = "text"}

\* C8: nothing deduplicates: the history of a sender holds one user turn per
\* delivery of a text message, so the same payload delivered twice leaves two user
\* turns with the same content, and each delivery makes its own generation call.
C8_NoDeduplication ==
    program \in HistoryPrograms =>
        \A s \in Keys, t \in Texts :
            /\ UserTurns(s, t) = Cardinality(Recorded(s, t))
            /\ \A r \in Recorded(s, t) : Len(genCalls[r]) = 1

\* the same text-message payload was delivered twice, both generation calls succeeded
C8_Witness ==
    /\ program \in HistoryPrograms
    /\ req[1] = req[2] /\ TextMessageFrom(1, "A")
    /\ pc[1] = "done" /\ pc[2] = "done" /\ GenOk(1) /\ GenOk(2)
    /\ UserTurns("A", SentText(1)) = 2
    /\ Len(genCalls[1]) = 1 /\ Len(genCalls[2]) = 1

\* ---------------------------------------------------------------- C9
\* C9: the step in which a delivery call returns, failed or not, changes no
\* history and makes no further delivery call (no retry, no fallback for it); when
\* the handler answers in that step the status is the one the generation outcome
\* decided: 200 after the try block (and in app.js), 500 after the catch block.
C9_DeliveryFailureContained ==
    [][\A r \in Reqs :
          (pc[r] \in {"send", "sendErr"} /\ delivResults'[r] # delivResults[r]) =>
              /\ chatHistories' = chatHistories
              /\ deliveries' = deliveries
              /\ pc'[r] # "sendErr"
              /\ (resp'[r] # resp[r] /\ pc[r] = "send") => Answered(r, 200)'
              /\ (resp'[r] # resp[r] /\ pc[r] = "sendErr") => Answered(r, 500)'
              /\ program \in HistoryPrograms => resp'[r] # resp[r]]_vars

\* a delivery failed after a successful generation call, and the request was
\* answered 200 with the history holding both turns
C9_Witness ==
    /\ program \in HistoryPrograms
    /\ TextMessageFrom(1, "A") /\ GenOk(1)
    /\ delivResults[1] = <<"fail">>
    /\ Len(deliveries[1]) = 1
    /\ Answered(1, 200)
    /\ Len(History("A")) = 2

\* ---------------------------------------------------------------- C10
\* C10: with a required configuration value missing, no request is ever handled.
C10_NoServingWithoutConfig == env # EnvNames => nreq = 0

\* ---------------------------------------------------------------- C11
\* the history kept under key s in a session store h
HistoryIn(h, s) == IF s \in DOMAIN h THEN h[s] ELSE <<>>
LastTurn(hist) == hist[Len(hist)]
\* the one generation call of a history server's request
SeedOf(r) == genCalls[r][1].history
MessageOf(r) == genCalls[r][1].message

\* C11: in the history servers a text message whose generation succeeds goes
\* through its steps in this order: the user turn is appended and then the
\* generation call is made (nothing else of the request has happened yet); when
\* the call returns the assistant turn is appended at the end of the sender's
\* history and exactly one delivery call is made, to the sender, with the
\* content of that turn, before any response; the response, 200, is sent only
\* after that delivery call has returned.
C11_SuccessOrder ==
    [][\A r \in Reqs : program \in HistoryPrograms =>
         /\ (pc[r] = "new" /\ pc'[r] = "gen") =>
               /\ HistoryIn(chatHistories', userPhone'[r]) =
                     Append(HistoryIn(chatHistories, userPhone'[r]),
                            Turn(program, "user", SentText(r)'))
               /\ Len(genCalls'[r]) = 1
               /\ LastTurn(SeedOf(r)') = Turn(program, "user", SentText(r)')
               /\ genResults'[r] = <<>> /\ deliveries'[r] = <<>> /\ resp'[r] = <<>>
         /\ (pc[r] = "gen" /\ pc'[r] = "send") =>
               /\ Len(genCalls[r]) = 1 /\ deliveries[r] = <<>>
               /\ Len(genResults'[r]) = 1
               /\ HistoryIn(chatHistories', userPhone[r]) =
                     Append(HistoryIn(chatHistories, userPhone[r]),
                            Turn(program, "assistant", genResults'[r][1]))
               /\ deliveries'[r] =
                     << [to |-> SentFrom(r),
                         text |-> TurnText(program,
                                     LastTurn(HistoryIn(chatHistories', userPhone[r])))] >>
               /\ delivResults'[r] = <<>> /\ resp'[r] = <<>>
         /\ (pc[r] = "send" /\ resp'[r] # resp[r]) =>
               /\ Len(deliveries[r]) = 1 /\ Len(delivResults'[r]) = 1
               /\ resp'[r] = << SendStatus(200) >>
               /\ pc'[r] = "done"
      ]_vars

\* a request of a sender with earlier turns went through all five steps
C11_Witness ==
    \E r \in Reqs :
        /\ program \in HistoryPrograms
        /\ TextMessageFrom(r, "A") /\ GenOk(r) /\ Answered(r, 200)
        /\ Len(History("A")) = 4
        /\ LastTurn(History("A")) = Turn(program, "assistant", genResults[r][1])
        /\ deliveries[r] = << [to |-> "A", text |-> genResults[r][1]] >>

\* ---------------------------------------------------------------- C12
\* C12: in the history servers every generation call is made with the sender's
\* whole stored history as it is at the moment of the call, and the last turn of
\* that history is the user turn just appended for the message; the same text
\* goes to the call as the new message.  The call for the first message of a new
\* sender therefore gets a history of length 1, never an empty one.
C12_SeededWithFullHistory ==
    [][\A r \in Reqs :
         (program \in HistoryPrograms /\ genCalls'[r] # genCalls[r]) =>
            /\ Len(genCalls'[r]) = 1
            /\ SeedOf(r)' = HistoryIn(chatHistories', userPhone'[r])
            /\ SeedOf(r)' = Append(HistoryIn(chatHistories, userPhone'[r]),
                                   Turn(program, "user", MessageOf(r)'))
            /\ MessageOf(r)' = SentText(r)'
            /\ TurnText(program, LastTurn(SeedOf(r)')) = MessageOf(r)'
            /\ LastTurn(SeedOf(r)').role = "user"
            /\ userPhone'[r] \notin DOMAIN chatHistories => Len(SeedOf(r)') = 1
      ]_vars

\* a first message of a new sender, and a later message seeded with three turns
C12_Witness ==
    /\ program \in HistoryPrograms
    /\ TextMessageFrom(1, "A") /\ TextMessageFrom(2, "A")
    /\ pc[1] = "done" /\ pc[2] = "gen"
    /\ Len(SeedOf(1)) = 1
    /\ SeedOf(2) = History("A") /\ Len(SeedOf(2)) = 3

\* ---------------------------------------------------------------- C13
\* the turns stored for any sender
StoredTurns == UNION {{History(s)[i] : i \in 1..Len(History(s))} : s \in Keys}
\* the steps of request r
StepOf(r) == pc'[r] # pc[r]

\* C13: in the history servers a failed generation call records nothing: the
\* step in which the call fails and every later step of that request leave the
\* session store as it is, so of the whole request only the user turn appended
\* on arrival remains, one turn, never rolled back; and no stored turn ever has
\* the fallback text as its content.
C13_FailureRecordsNothing ==
    [][\A r \in Reqs : program \in HistoryPrograms =>
         /\ (StepOf(r) /\ pc[r] = "new") =>
               \/ chatHistories' = chatHistories
               \/ /\ pc'[r] = "gen"
                  /\ HistoryIn(chatHistories', userPhone'[r]) =
                        Append(HistoryIn(chatHistories, userPhone'[r]),
                               Turn(program, "user", SentText(r)'))
         /\ (StepOf(r) /\ pc[r] = "gen" /\ genResults'[r] = <<"fail">>) =>
               /\ chatHistories' = chatHistories
               /\ LET hist == HistoryIn(chatHistories, userPhone[r])
                  IN \E i \in 1..Len(hist) : hist[i] = Turn(program, "user", MessageOf(r))
         /\ (StepOf(r) /\ pc[r] = "sendErr") => chatHistories' = chatHistories
         /\ \A t \in StoredTurns' : TurnText(program, t) # Fallback(program)
      ]_vars

\* a request alone: its generation call failed, the fallback went out, 500 was
\* answered, and the history is the one user turn
C13_Witness ==
    /\ program \in HistoryPrograms
    /\ TextMessageFrom(1, "A") /\ GenFailed(1) /\ pc[1] = "done"
    /\ deliveries[1] = << [to |-> "A", text |-> Fallback(program)] >>
    /\ History("A") = << Turn(program, "user", SentText(1)) >>
    /\ nreq = 1

\* ---------------------------------------------------------------- C14
CountRole(hist, role) == Len(SelectSeq(hist, LAMBDA t : t.role = role))
\* user, assistant, user, assistant, ...
Alternating(hist) ==
    \A i \in 1..Len(hist) : hist[i].role = IF i % 2 = 1 THEN "user" ELSE "assistant"
\* request r arrives at its generation call while request o, of the same
\* sender, is suspended at its own
OverlapsAtGeneration(r, o) ==
    /\ o # r
    /\ pc[r] = "new" /\ pc'[r] = "gen"
    /\ pc[o] = "gen" /\ userPhone[o] = userPhone'[r]

\* C14: nothing serializes the requests of a sender.  When a message arrives
\* while the generation call of an earlier message of the same sender is
\* pending, it is processed at once: its user turn lands behind turns that
\* still wait for their reply, so the history stops alternating, and its
\* generation call is seeded with that history, which lacks the reply to the
\* earlier message.
C14_OverlapBreaksAlternation ==
    [][\A r, o \in Reqs :
         (program \in HistoryPrograms /\ OverlapsAtGeneration(r, o)) =>
            LET hist == HistoryIn(chatHistories', userPhone'[r])
            IN /\ ~Alternating(hist)
               /\ CountRole(hist, "user") >= CountRole(hist, "assistant") + 2
               /\ SeedOf(r)' = hist
               /\ genResults[o] = <<>>
      ]_vars

\* two overlapping messages of one sender, both answered: user, user, assistant,
\* assistant, the replies stored in the opposite order of the arrivals, the
\* second reply generated without the first
C14_Witness ==
    /\ program \in HistoryPrograms
    /\ TextMessageFrom(1, "A") /\ TextMessageFrom(2, "A")
    /\ SentText(1) = "t1" /\ SentText(2) = "t2"
    /\ Answered(1, 200) /\ Answered(2, 200)
    /\ genResults[1] = <<"r1">> /\ genResults[2] = <<"r2">>
    /\ History("A") = << Turn(program, "user", "t1"), Turn(program, "user", "t2"),
                         Turn(program, "assistant", "r2"), Turn(program, "assistant", "r1") >>
    /\ SeedOf(2) = << Turn(program, "user", "t1"), Turn(program, "user", "t2") >>

\* ---------------------------------------------------------------- C15
\* the handler of request r is entered
ArrivalStep(r) ==
    \/ \E q \in Queries : Get(r, q)
    \/ \E b \in Bodies : SrvPostStart(r, b)
    \/ \E b \in Bodies : AppPostStart(r, b)
\* a pending call of request r returns and its handler goes on
ReturnStep(r) ==
    \/ \E reply \in Replies : SrvGenOk(r, reply)
    \/ SrvGenFail(r)
    \/ \E o \in Outcomes : SrvSendReturn(r, o)
    \/ \E res \in Results : AppGenReturn(r, res)
    \/ \E o \in Outcomes : AppSendReturn(r, o)

\* C15: a generation call that does not return holds up its own request only.
\* As long as the process runs and some request is suspended at its generation
\* call, the next request can enter its handler, and every other request that
\* waits for a call of its own goes on as soon as that call returns.
C15_StallIsLocal ==
    \A stalled \in Reqs :
        (proc = "listening" /\ pc[stalled] = "gen") =>
            \A r \in Reqs \ {stalled} :
                /\ (pc[r] = "new" /\ r = nreq + 1) => ENABLED ArrivalStep(r)
                /\ pc[r] \in Suspended => ENABLED ReturnStep(r)

\* the first request still waits for its generation call; the second arrived
\* after it, was processed and has been answered
C15_Witness ==
    /\ pc[1] = "gen" /\ genResults[1] = <<>>
    /\ 1 \in inFlightAtStart[2]
    /\ HasFirstMsg(2) /\ GenOk(2) /\ delivResults[2] = <<"ok">>
    /\ Answered(2, 200)

\* ---------------------------------------------------------------- C16
IsPrefix(a, b) == Len(a) <= Len(b) /\ SubSeq(b, 1, Len(a)) = a

\* histories are append-only and sessions are never destroyed: a step leaves
\* each history as it is or extends it at its end by one turn
AppendOnly ==
    [][\A s \in Keys :
         /\ s \in DOMAIN chatHistories => s \in DOMAIN chatHistories'
         /\ \/ HistoryIn(chatHistories', s) = HistoryIn(chatHistories, s)
            \/ /\ Len(HistoryIn(chatHistories', s)) = Len(HistoryIn(chatHistories, s)) + 1
               /\ IsPrefix(HistoryIn(chatHistories, s), HistoryIn(chatHistories', s))
      ]_vars

\* in this step a session for s is created by the arrival of request r
CreatedBy(s, r) ==
    /\ s \notin DOMAIN chatHistories /\ s \in DOMAIN chatHistories'
    /\ pc[r] = "new" /\ pc'[r] = "gen" /\ userPhone'[r] = s

\* C16: a session is created only by the first text message from its sender and
\* is never destroyed, and histories are append-only: each step leaves each
\* sender's history unchanged or extends it at the end by exactly one turn, so
\* an earlier history is always a prefix of a later one.
C16_SessionLifecycle ==
    [][\A s \in Keys :
         /\ s \in DOMAIN chatHistories => s \in DOMAIN chatHistories'
         /\ \/ HistoryIn(chatHistories', s) = HistoryIn(chatHistories, s)
            \/ /\ Len(HistoryIn(chatHistories', s)) = Len(HistoryIn(chatHistories, s)) + 1
               /\ IsPrefix(HistoryIn(chatHistories, s), HistoryIn(chatHistories', s))
         /\ (s \notin DOMAIN chatHistories /\ s \in DOMAIN chatHistories') =>
               \E r \in Reqs :
                   /\ CreatedBy(s, r)
                   /\ TextMessageFrom(r, s)'
                   /\ \A o \in Reqs : o < r => ~TextMessageFrom(o, s)
      ]_vars

\* sessions are created by text messages only on the part_001 history server, which
\* checks the message type
CreatedByTextMessageOnPartsServer ==
    [][program = "serverParts" =>
         \A s \in Keys :
             (s \notin DOMAIN chatHistories /\ s \in DOMAIN chatHistories') =>
                 \E r \in Reqs : CreatedBy(s, r) /\ TextMessageFrom(r, s)'
                                 /\ \A o \in Reqs : o < r => ~TextMessageFrom(o, s)
      ]_vars

\* ---------------------------------------------------------------- C17
\* request r was processed as a message of the sender stored under s
ProcessedFor(r, s) == genCalls[r] # <<>> /\ HistoryKey(userPhone[r]) = s
\* the user turns of the requests 1..n processed for s, in the order in which
\* the requests began processing (request ids are given on arrival)
RECURSIVE UserTurnsInArrivalOrder(_, _)
UserTurnsInArrivalOrder(s, n) ==
    IF n = 0 THEN <<>>
    ELSE LET before == UserTurnsInArrivalOrder(s, n - 1)
         IN IF ProcessedFor(n, s)
            THEN Append(before, Turn(program, "user", MessageOf(n)))
            ELSE before

\* C17: in the history servers the user turns of a sender's history are the
\* messages of that sender's processed requests, one turn each, in the order in
\* which the requests began processing, whatever the order in which their
\* generation calls return.
C17_UserTurnsInArrivalOrder ==
    program \in HistoryPrograms =>
        \A s \in Keys :
            SelectSeq(History(s), LAMBDA t : t.role = "user") =
                UserTurnsInArrivalOrder(s, MaxReq)

\* two overlapping requests of one sender with different texts; the second
\* one's generation call returned first
C17_Witness ==
    /\ program \in HistoryPrograms
    /\ ProcessedFor(1, "A") /\ ProcessedFor(2, "A")
    /\ MessageOf(1) = "t2" /\ MessageOf(2) = "t1"
    /\ 1 \in inFlightAtStart[2]
    /\ GenOk(2) /\ genResults[1] = <<>>
    /\ Len(History("A")) = 3

\* ---------------------------------------------------------------- C18
\* the requests processed for s whose generation call returned a reply
SucceededFor(s) == {r \in Reqs : ProcessedFor(r, s) /\ GenOk(r)}

\* C18: in every reachable state of the history servers, for every sender,
\* every prefix of the stored history has at least as many user turns as
\* assistant turns, every turn has role user or assistant, and the number of
\* assistant turns is the number of that sender's generation calls that
\* returned a reply, also when requests overlap and when calls fail.
C18_TurnAccounting ==
    program \in HistoryPrograms =>
        \A s \in Keys :
            /\ \A n \in 0..Len(History(s)) :
                   CountRole(SubSeq(History(s), 1, n), "user") >=
                       CountRole(SubSeq(History(s), 1, n), "assistant")
            /\ \A i \in 1..Len(History(s)) : History(s)[i].role \in {"user", "assistant"}
            /\ CountRole(History(s), "assistant") = Cardinality(SucceededFor(s))

\* two overlapping requests of one sender: the first one's generation call
\* failed, the second one's returned a reply
C18_Witness ==
    /\ program \in HistoryPrograms
    /\ ProcessedFor(1, "A") /\ ProcessedFor(2, "A")
    /\ 1 \in inFlightAtStart[2]
    /\ GenFailed(1) /\ GenOk(2)
    /\ CountRole(History("A"), "user") = 2
    /\ CountRole(History("A"), "assistant") = 1

\* ---------------------------------------------------------------- C19
\* the sender of the message behind the i-th generation call of request r
SenderOfCall(r, i) ==
    IF program = "app" THEN AppPlan(req[r].body)[i].from ELSE SentFrom(r)
\* the delivery call that belongs to the i-th generation result of request r
DeliveryFor(r, i) ==
    [to |-> SenderOfCall(r, i),
     text |-> IF genResults[r][i] = "fail" THEN Fallback(program) ELSE genResults[r][i]]
\* the catch block of the history servers sends nothing when userPhone is falsy
NothingSentFor(r, i) ==
    program \in HistoryPrograms /\ genResults[r][i] = "fail" /\ Falsy(SenderOfCall(r, i))

RECURSIVE OneDeliveryPerResult(_, _)
OneDeliveryPerResult(r, n) ==
    IF n = 0 THEN <<>> ELSE Append(OneDeliveryPerResult(r, n - 1), DeliveryFor(r, n))

RECURSIVE DeliveriesToSenders(_, _)
DeliveriesToSenders(r, n) ==
    IF n = 0 THEN <<>>
    ELSE IF NothingSentFor(r, n) THEN DeliveriesToSenders(r, n - 1)
    ELSE Append(DeliveriesToSenders(r, n - 1), DeliveryFor(r, n))

\* the generation calls of request r go one by one, and the delivery calls
\* follow the results
CallsInStep(r) ==
    /\ Len(genResults[r]) <= Len(genCalls[r])
    /\ Len(genCalls[r]) <= Len(genResults[r]) + 1
    /\ pc[r] \in {"done", "hung", "threw"} => Len(genCalls[r]) = Len(genResults[r])

\* C19: every message that passes parsing, that is for which the handler makes
\* a generation call, leads to exactly one delivery call, addressed to its
\* sender, with the generated reply or the fixed fallback text, never both and
\* never neither; a request makes no other delivery call, so a message that
\* does not pass parsing leads to none.
C19_ExactlyOneDelivery ==
    \A r \in Reqs :
        /\ CallsInStep(r)
        /\ deliveries[r] = OneDeliveryPerResult(r, Len(genResults[r]))

\* the same with the one exception the history servers make: a message without
\* a from field whose generation call fails leads to no delivery call at all
OneDeliveryWhereSenderKnown ==
    \A r \in Reqs :
        /\ CallsInStep(r)
        /\ deliveries[r] = DeliveriesToSenders(r, Len(genResults[r]))
        /\ genCalls[r] = <<>> => deliveries[r] = <<>>

\* ---------------------------------------------------------------- C20
\* the handler of request r has ended or can never go on: no call of its own
\* is pending and no step of it is left
Over(r) == pc[r] \in {"done", "hung"}

\* C20: every POST /webhook request receives exactly one HTTP response, whatever
\* the shape of its payload: never a second response, and a request whose
\* calls have all returned and whose handler has nothing left to do has its
\* response.
C20_ExactlyOneResponse ==
    \A r \in Reqs :
        IsPost(r) => /\ Len(resp[r]) <= 1
                     /\ Over(r) => Len(resp[r]) = 1

\* the history servers answer every request: their handler never throws out of
\* its try block, a pending call's return is always taken up, and the handler
\* ends with its one response
HistoryServersAnswer ==
    program \in HistoryPrograms =>
        \A r \in Reqs :
            /\ pc[r] \notin {"threw", "hung"}
            /\ Len(resp[r]) <= 1
            /\ pc[r] = "done" => Len(resp[r]) = 1
            /\ pc[r] \in Suspended => proc = "listening" /\ ENABLED ReturnStep(r)

====
